---- MODULE Spec2Model ----
(***************************************************************************)
(* The `monitor` command of multi-cli (commands/websiteMonitor.ts): a      *)
(* polling loop that probes one URL (HTTP GET or ping), keeps the last ten *)
(* results in monitoringCache and repaints a report after every probe.     *)
(*                                                                         *)
(* Node runs the command on one thread: every step between two awaits is   *)
(* atomic, so one action below is one run-to-completion piece of the code  *)
(* (the command body up to its first await, a timer callback, the rest of  *)
(* check() after its probe has settled, a signal handler).  Time is a      *)
(* clock in milliseconds that advances one second at a time, and a timer   *)
(* that is due fires before the clock advances again.                      *)
(*                                                                         *)
(* Three more commands follow the monitor, each with its own variables and *)
(* its own specification: `nav` (commands/directoryNavigator.ts, SpecNav), *)
(* `cntrl` (commands/gitControl.ts, SpecGit) and `top`                     *)
(* (commands/processMonitor.ts, SpecTop).  A specification runs one        *)
(* command; the variables of the others stay as they start.                *)
(***************************************************************************)
EXTENDS Integers, Sequences, FiniteSets, TLC

\* ---------------------------------------------------------------- bounds
\* check() invocations modelled in the full specification
MaxChecks == 3
\* check() invocations modelled in the window specification (must exceed
\* HistorySize so that eviction happens)
MaxWindowChecks == 11
\* seconds after which the ping backend has answered on its own account
PingDeadline == 3

\* ------------------------------------------------------ program constants
MsPerSecond == 1000
HistorySize == 10
StatusOK == 200
StatusUnavailable == 503

\* A non-number produced by parseFloat; response times are >= 0 otherwise.
NaN == -1

\* ------------------------------------------------------------- strings
\* Command-line strings are sequences of characters.
Digits == <<"0", "1", "2", "3", "4", "5", "6", "7", "8", "9">>

IsDigit(c) == \E i \in 1..10 : Digits[i] = c

DigitValue(c) == (CHOOSE i \in 1..10 : Digits[i] = c) - 1

RECURSIVE LeadingDigits(_)
LeadingDigits(s) ==
    IF s = <<>> \/ ~IsDigit(Head(s)) THEN <<>>
    ELSE <<Head(s)>> \o LeadingDigits(Tail(s))

RECURSIVE DecimalValue(_)
DecimalValue(s) ==
    IF s = <<>> THEN 0
    ELSE 10 * DecimalValue(SubSeq(s, 1, Len(s) - 1)) + DigitValue(s[Len(s)])

\* parseInt(s): optional sign, then the longest prefix of digits; NaN when
\* there is no digit.
ParseInt(s) ==
    LET neg  == s # <<>> /\ Head(s) = "-"
        body == IF s # <<>> /\ Head(s) \in {"-", "+"} THEN Tail(s) ELSE s
        ds   == LeadingDigits(body)
    IN  IF ds = <<>> THEN NaN
        ELSE IF neg THEN 0 - DecimalValue(ds) ELSE DecimalValue(ds)

\* ------------------------------------------------------------- options
NoUrl == ""
BadUrl == "example"
GoodUrl == "http://example.com"
Urls == {NoUrl, BadUrl, GoodUrl}

\* new URL(u) succeeds
URLParses(u) == u \in {GoodUrl}

\* new URL(u).hostname
Hostname(u) == IF u = GoodUrl THEN "example.com" ELSE ""

Seconds == {<<"1">>, <<"2">>}

OptionSets == [url : Urls, ping : BOOLEAN, interval : Seconds, timeout : Seconds]

WindowOptions ==
    [url |-> GoodUrl, ping |-> FALSE, interval |-> <<"1">>, timeout |-> <<"1">>]

\* a run whose GETs take under one or under two seconds
LatencyOptions ==
    [url |-> GoodUrl, ping |-> FALSE, interval |-> <<"2">>, timeout |-> <<"2">>]

\* --interval / --timeout values that are zero, negative or not a number
\* ("-1" is left out: the model writes NaN as -1)
BadSeconds == {<<"0">>, <<"-", "2">>, <<"a", "b", "c">>}

TimingOptionSets ==
    [url : {GoodUrl}, ping : BOOLEAN, interval : BadSeconds, timeout : {<<"1">>}]
    \cup [url : {GoodUrl}, ping : BOOLEAN, interval : {<<"1">>}, timeout : BadSeconds]

\* HTTP status codes a server answers with
Statuses == {StatusOK, 204, StatusUnavailable}
WindowStatuses == {StatusOK, StatusUnavailable}

\* The environment of a run: how many ticks are modelled, how many of them
\* may fail, what the server answers.
Env == [maxChecks |-> MaxChecks, maxFaults |-> MaxChecks, statuses |-> Statuses]
WindowEnv ==
    [maxChecks |-> MaxWindowChecks, maxFaults |-> 1, statuses |-> WindowStatuses]

LatencyEnv ==
    [maxChecks |-> MaxWindowChecks, maxFaults |-> 1, statuses |-> {StatusOK}]

VARIABLES
    options,          \* the parsed command line
    pc,               \* where the command's action is
    now,              \* Date.now()
    started,          \* number of check() invocations so far
    inflight,         \* check() invocations awaiting their probe
    abortTimers,      \* pending setTimeout(() => controller.abort()) per check
    intervalId,       \* the setInterval timer
    sigintHandler,    \* process.on('SIGINT') has been called
    monitoringCache,  \* Map<string, MonitoringResult[]>
    log,              \* every result ever pushed, in order (history variable)
    answers,          \* what the backend answered for each pushed result
                      \* (history variable, parallel to log)
    faults,           \* ticks that ended in check()'s catch block
    out,              \* what console.log printed since the last console.clear
    err               \* what console.error printed

monitorVars ==
    <<options, pc, now, started, inflight, abortTimers, intervalId,
      sigintHandler, monitoringCache, log, answers, faults, out, err>>

\* the nav command (directoryNavigator)
VARIABLES
    localStorage,     \* the persisted 'bookmarks' item, in key order
    bookmarks,        \* what the last invocation parsed from it on line 30
    navOptions,       \* the options of the last invocation
    navOut,           \* what the last invocation printed with console.log
    navErr,           \* what the last invocation printed with console.error
    navWrites,        \* localStorage.setItem calls of the last invocation
    navRuns           \* invocations so far

navVars == <<localStorage, bookmarks, navOptions, navOut, navErr, navWrites, navRuns>>

\* the cntrl command (gitControl)
VARIABLES
    gitOptions,       \* the options that are truthy
    gitCwd,           \* where the command runs
    gitPc,            \* where the command's action is
    gitPlan,          \* the git commands the action has still to run
    gitRan,           \* every git command run so far (history variable)
    gitStatus,        \* what the last getGitStatus() returned
    gitOut,           \* console.log
    gitErr            \* console.error

gitVars == <<gitOptions, gitCwd, gitPc, gitPlan, gitRan, gitStatus, gitOut, gitErr>>

\* the top command (processMonitor)
VARIABLES
    topPc,            \* where the command's action is
    cursor,           \* the terminal cursor
    topHandlers,      \* signals with a listener installed
    topLoop,          \* the refresh iterations so far (history variable)
    topTimer,         \* when the pending 2-second wait ends
    topErr            \* console.error

topVars == <<topPc, cursor, topHandlers, topLoop, topTimer, topErr>>

vars == <<monitorVars, navVars, gitVars, topVars>>

\* ------------------------------------------------------------- helpers
Last(s) == s[Len(s)]

RECURSIVE Reverse(_)
Reverse(s) == IF s = <<>> THEN <<>> ELSE Reverse(Tail(s)) \o <<Head(s)>>

RECURSIVE CountUp(_)
CountUp(rs) ==
    IF rs = <<>> THEN 0
    ELSE (IF Head(rs).isUp THEN 1 ELSE 0) + CountUp(Tail(rs))

RECURSIVE SumResponseTime(_)
SumResponseTime(rs) ==
    IF rs = <<>> THEN 0
    ELSE IF Head(rs).responseTime = NaN \/ SumResponseTime(Tail(rs)) = NaN THEN NaN
    ELSE Head(rs).responseTime + SumResponseTime(Tail(rs))

\* (num / den).toFixed(1), as a count of tenths: the nearest tenth, the
\* larger one on a tie.  NaN stays NaN.
ToFixed1(num, den) ==
    IF num = NaN THEN NaN ELSE (2 * 10 * num + den) \div (2 * den)

\* a * b in JavaScript numbers: NaN stays NaN
Times(a, b) == IF a = NaN THEN NaN ELSE a * b

interval == Times(ParseInt(options.interval), MsPerSecond)
timeout == Times(ParseInt(options.timeout), MsPerSecond)

\* setTimeout / setInterval: a delay that is NaN or below 1 becomes 1 ms
TimerDelay(ms) == IF ms = NaN \/ ms < 1 THEN 1 ELSE ms

Alive == pc \in {"first", "armed"}

\* monitoringCache.get(url) || []
CacheGet(url) ==
    IF url \in DOMAIN monitoringCache THEN monitoringCache[url] ELSE <<>>

\* push, shift only when longer than eleven
PushShiftLate(results, result) ==
    LET pushed == Append(results, result)
    IN  IF Len(pushed) > HistorySize + 1 THEN Tail(pushed) ELSE pushed

\* push, then pop (drop the newest) when longer than ten
PushPop(results, result) ==
    LET pushed == Append(results, result)
    IN  IF Len(pushed) > HistorySize THEN SubSeq(pushed, 1, HistorySize) ELSE pushed

\* lines 67-68: push, then shift when longer than ten
PushShift(results, result) ==
    LET pushed == Append(results, result)
    IN  IF Len(pushed) > HistorySize THEN Tail(pushed) ELSE pushed

\* the up count over the capacity instead of the retained length
AvailabilityOverCapacity(results) == <<CountUp(results) * 100, HistorySize>>

\* line 71, as the fraction <<numerator, denominator>> of the percentage
Availability(results) == <<CountUp(results) * 100, Len(results)>>

\* the sum over the capacity instead of the retained length
AvgOverCapacity(results) == <<SumResponseTime(results), HistorySize>>

\* line 72
AvgResponseTime(results) == <<SumResponseTime(results), Len(results)>>

\* isUp from response.ok (any 2xx) instead of status === 200
MakeResultOk(status, responseTime) ==
    [timestamp |-> now, status |-> status, responseTime |-> responseTime,
     isUp |-> (status >= 200 /\ status < 300)]

\* the timestamp taken when the probe was issued instead of when it returned
MakeResultStartStamp(status, responseTime) ==
    [timestamp |-> now - responseTime, status |-> status,
     responseTime |-> responseTime, isUp |-> (status = StatusOK)]

\* lines 59-64
MakeResult(status, responseTime) ==
    [timestamp |-> now, status |-> status, responseTime |-> responseTime,
     isUp |-> (status = StatusOK)]

\* the history listed in stored order (no reverse)
ReportOldestFirst(result, results) ==
    [type |-> "report",
     isUp |-> result.isUp,
     responseTime |-> result.responseTime,
     availability |-> ToFixed1(Availability(results)[1], Availability(results)[2]),
     avgResponseTime |-> ToFixed1(AvgResponseTime(results)[1], AvgResponseTime(results)[2]),
     recent |-> results]

\* lines 74-85: what one successful tick leaves on the screen
Report(result, results) ==
    [type |-> "report",
     isUp |-> result.isUp,
     responseTime |-> result.responseTime,
     availability |-> ToFixed1(Availability(results)[1], Availability(results)[2]),
     avgResponseTime |-> ToFixed1(AvgResponseTime(results)[1], AvgResponseTime(results)[2]),
     recent |-> Reverse(results)]

\* lines 88-90
ErrorScreen(message) == [type |-> "error", message |-> message]

Line(text) == [type |-> text]

\* ------------------------------------------------------------- check()
\* lines 39-54: check() up to its await.  Ping mode hands the hostname to the
\* backend; HTTP mode arms the abort timer and issues the GET.
StartCheck(id) ==
    /\ started' = id
    /\ inflight' = inflight @@
         (id :> [startTime |-> now,
                 kind |-> IF options.ping THEN "ping" ELSE "fetch",
                 target |-> IF options.ping THEN Hostname(options.url) ELSE options.url])
    /\ abortTimers' = IF options.ping THEN abortTimers
                      ELSE abortTimers @@ (id :> now + TimerDelay(timeout))

Without(f, id) == [k \in DOMAIN f \ {id} |-> f[k]]

\* lines 94-102: what runs when `await check()` resumes.  Only the first
\* check() is awaited; later ones are timer callbacks.
AfterCheck ==
    IF pc = "first"
    THEN /\ pc' = "armed"
         /\ intervalId' = [armed |-> TRUE, due |-> now + TimerDelay(interval)]
         /\ sigintHandler' = TRUE
    ELSE UNCHANGED <<pc, intervalId, sigintHandler>>

\* check() without its catch block: the promise rejects, which the outer
\* catch turns into a return while check() is awaited and which is an
\* unhandled rejection in a timer callback
Rethrown(message) ==
    /\ out' = out
    /\ faults' = faults + 1
    /\ pc' = IF pc = "first" THEN "returned" ELSE "crashed"
    /\ UNCHANGED <<intervalId, sigintHandler>>

\* lines 87-91: the catch block of check()
Caught(message) ==
    /\ out' = <<ErrorScreen(message)>>
    /\ faults' = faults + 1
    /\ AfterCheck

\* ------------------------------------------------------ probe backends
\* What ping.promise.probe resolves with after `elapsed` ms: a host that
\* answers reports its round-trip time as a number, one that does not
\* reports the string 'unknown'.
Unknown == <<"u", "n", "k", "n", "o", "w", "n">>

PingResponses(elapsed) ==
    {[alive |-> TRUE, time |-> [typeof |-> "number", number |-> elapsed, string |-> <<>>]],
     [alive |-> FALSE, time |-> [typeof |-> "string", number |-> 0, string |-> Unknown]]}

\* parseFloat on the strings the backend produces (whole numbers of ms, or
\* text that is not a number)
ParseFloat(s) == ParseInt(s)

\* the status from the truthiness of the response object, not of res.alive
PingStatusAlwaysOK(res) == StatusOK

\* lines 45-47
PingStatus(res) == IF res.alive THEN StatusOK ELSE StatusUnavailable

PingResponseTime(res) ==
    IF res.time.typeof = "number" THEN res.time.number
    ELSE IF res.time.typeof = "string" THEN ParseFloat(res.time.string)
    ELSE 0

\* the result pushed twice
RecordAndRenderTwice(id, status, responseTime, renderThrows) ==
    LET result  == MakeResult(status, responseTime)
        results == PushShift(PushShift(CacheGet(options.url), result), result)
    IN  /\ monitoringCache' = (options.url :> results) @@ monitoringCache
        /\ log' = Append(Append(log, result), result)
        /\ inflight' = Without(inflight, id)
        /\ IF renderThrows
           THEN Caught("render")
           ELSE /\ out' = <<Report(result, results)>>
                /\ AfterCheck
                /\ UNCHANGED faults

\* lines 59-85 for the check `id` whose probe gave status and responseTime:
\* record the result, then render; a render that throws lands in the catch
\* block with the result already stored.
RecordAndRender(id, status, responseTime, renderThrows) ==
    LET result  == MakeResult(status, responseTime)
        results == PushShift(CacheGet(options.url), result)
    IN  /\ monitoringCache' = (options.url :> results) @@ monitoringCache
        /\ log' = Append(log, result)
        /\ inflight' = Without(inflight, id)
        /\ IF renderThrows
           THEN Caught("render")
           ELSE /\ out' = <<Report(result, results)>>
                /\ AfterCheck
                /\ UNCHANGED faults

\* lines 44 and 52: what came back from the backend
PingAnswer(res) == [kind |-> "ping", alive |-> res.alive, status |-> 0, time |-> res.time]

FetchAnswer(status) ==
    [kind |-> "fetch", alive |-> FALSE, status |-> status,
     time |-> [typeof |-> "undefined", number |-> 0, string |-> <<>>]]

\* lines 44-58: the probe of check `id` has settled with a response.  A GET
\* answers before its abort timer is due, or the timer ends it.
Settled(id, statuses, renderThrows) ==
    IF inflight[id].kind = "ping"
    THEN /\ \E res \in PingResponses(now - inflight[id].startTime) :
              /\ RecordAndRender(id, PingStatus(res), PingResponseTime(res), renderThrows)
              /\ answers' = Append(answers, PingAnswer(res))
         /\ UNCHANGED abortTimers
    ELSE /\ now < abortTimers[id]
         /\ \E status \in statuses :
              /\ RecordAndRender(id, status, now - inflight[id].startTime, renderThrows)
              /\ answers' = Append(answers, FetchAnswer(status))
         /\ abortTimers' = Without(abortTimers, id)

\* ------------------------------------------------- commands not started
Undefined == [typeof |-> "undefined", value |-> ""]

NavIdle ==
    /\ localStorage = <<>>
    /\ bookmarks = <<>>
    /\ navOptions = [add |-> Undefined, remove |-> Undefined, list |-> Undefined,
                     clear |-> Undefined, go |-> Undefined, path |-> Undefined]
    /\ navOut = <<>>
    /\ navErr = <<>>
    /\ navWrites = 0
    /\ navRuns = 0

GitIdle ==
    /\ gitOptions = {}
    /\ gitCwd = "worktree"
    /\ gitPc = "start"
    /\ gitPlan = <<>>
    /\ gitRan = <<>>
    /\ gitStatus = [staged |-> <<>>, unstaged |-> <<>>, untracked |-> <<>>]
    /\ gitOut = <<>>
    /\ gitErr = <<>>

TopIdle ==
    /\ topPc = "start"
    /\ cursor = "shown"
    /\ topHandlers = {}
    /\ topLoop = <<>>
    /\ topTimer = 0
    /\ topErr = <<>>

\* ------------------------------------------------------------- actions
Init ==
    /\ options \in OptionSets
    /\ pc = "init"
    /\ now = 0
    /\ started = 0
    /\ inflight = <<>>
    /\ abortTimers = <<>>
    /\ intervalId = [armed |-> FALSE, due |-> 0]
    /\ sigintHandler = FALSE
    /\ monitoringCache = <<>>
    /\ log = <<>>
    /\ answers = <<>>
    /\ faults = 0
    /\ out = <<>>
    /\ err = <<>>
    /\ NavIdle
    /\ GitIdle
    /\ TopIdle

InitWindow == Init /\ options = WindowOptions

InitLatency == Init /\ options = LatencyOptions

InitTiming ==
    /\ options \in TimingOptionSets
    /\ pc = "init"
    /\ now = 0
    /\ started = 0
    /\ inflight = <<>>
    /\ abortTimers = <<>>
    /\ intervalId = [armed |-> FALSE, due |-> 0]
    /\ sigintHandler = FALSE
    /\ monitoringCache = <<>>
    /\ log = <<>>
    /\ answers = <<>>
    /\ faults = 0
    /\ out = <<>>
    /\ err = <<>>
    /\ NavIdle
    /\ GitIdle
    /\ TopIdle

\* the command's action without `new URL(options.url)` before the first check
LaunchUnparsed ==
    /\ pc = "init"
    /\ IF options.url = NoUrl
       THEN /\ err' = Append(err, "Error: URL is required")
            /\ pc' = "returned"
            /\ UNCHANGED <<started, inflight, abortTimers, out>>
       ELSE /\ out' = <<Line("starting"), Line("press")>>
            /\ StartCheck(1)
            /\ pc' = "first"
            /\ UNCHANGED err
    /\ UNCHANGED <<options, now, intervalId, sigintHandler, monitoringCache,
                   log, answers, faults>>
    /\ UNCHANGED <<navVars, gitVars, topVars>>

\* the command's action with setInterval called before `await check()`
LaunchArmsTimer ==
    /\ pc = "init"
    /\ IF options.url = NoUrl
       THEN /\ err' = Append(err, "Error: URL is required")
            /\ pc' = "returned"
            /\ UNCHANGED <<started, inflight, abortTimers, out, intervalId>>
       ELSE IF ~URLParses(options.url)
       THEN /\ err' = Append(err, "Error: Invalid URL")
            /\ pc' = "returned"
            /\ UNCHANGED <<started, inflight, abortTimers, out, intervalId>>
       ELSE /\ out' = <<Line("starting"), Line("press")>>
            /\ StartCheck(1)
            /\ intervalId' = [armed |-> TRUE, due |-> now + TimerDelay(interval)]
            /\ pc' = "first"
            /\ UNCHANGED err
    /\ UNCHANGED <<options, now, sigintHandler, monitoringCache,
                   log, answers, faults>>
    /\ UNCHANGED <<navVars, gitVars, topVars>>

\* the command's action with the target's history created up front
LaunchCreatesEntry ==
    /\ pc = "init"
    /\ IF options.url = NoUrl
       THEN /\ err' = Append(err, "Error: URL is required")
            /\ pc' = "returned"
            /\ UNCHANGED <<started, inflight, abortTimers, out, monitoringCache>>
       ELSE IF ~URLParses(options.url)
       THEN /\ err' = Append(err, "Error: Invalid URL")
            /\ pc' = "returned"
            /\ UNCHANGED <<started, inflight, abortTimers, out, monitoringCache>>
       ELSE /\ out' = <<Line("starting"), Line("press")>>
            /\ StartCheck(1)
            /\ monitoringCache' = (options.url :> <<>>)
            /\ pc' = "first"
            /\ UNCHANGED err
    /\ UNCHANGED <<options, now, intervalId, sigintHandler,
                   log, answers, faults>>
    /\ UNCHANGED <<navVars, gitVars, topVars>>

\* lines 24-38 and 94: the command's action up to `await check()`
Launch ==
    /\ pc = "init"
    /\ IF options.url = NoUrl
       THEN /\ err' = Append(err, "Error: URL is required")
            /\ pc' = "returned"
            /\ UNCHANGED <<started, inflight, abortTimers, out>>
       ELSE IF ~URLParses(options.url)
       THEN /\ err' = Append(err, "Error: Invalid URL")
            /\ pc' = "returned"
            /\ UNCHANGED <<started, inflight, abortTimers, out>>
       ELSE /\ out' = <<Line("starting"), Line("press")>>
            /\ StartCheck(1)
            /\ pc' = "first"
            /\ UNCHANGED err
    /\ UNCHANGED <<options, now, intervalId, sigintHandler, monitoringCache,
                   log, answers, faults>>
    /\ UNCHANGED <<navVars, gitVars, topVars>>

\* line 96: the interval timer calls check(); setInterval does not wait for
\* the promise check() returns.
TimerFire(e) ==
    /\ pc = "armed"
    /\ intervalId.armed
    /\ now >= intervalId.due
    /\ started < e.maxChecks
    /\ StartCheck(started + 1)
    /\ intervalId' = [armed |-> TRUE, due |-> now + TimerDelay(interval)]
    /\ UNCHANGED <<options, pc, now, sigintHandler, monitoringCache, log, answers,
                   faults, out, err>>
    /\ UNCHANGED <<navVars, gitVars, topVars>>

\* lines 44-85: a probe answers, the result is recorded and rendered
ProbeReturns(e) ==
    /\ Alive
    /\ \E id \in DOMAIN inflight : Settled(id, e.statuses, FALSE)
    /\ UNCHANGED <<options, now, started, err>>
    /\ UNCHANGED <<navVars, gitVars, topVars>>

\* lines 74-91: a probe answers, the result is recorded, rendering throws
RenderThrows(e) ==
    /\ Alive
    /\ faults < e.maxFaults
    /\ \E id \in DOMAIN inflight : Settled(id, e.statuses, TRUE)
    /\ UNCHANGED <<options, now, started, err>>
    /\ UNCHANGED <<navVars, gitVars, topVars>>

\* a rejected probe recorded as a DOWN result
ProbeRejectsRecorded(e) ==
    /\ Alive
    /\ faults < e.maxFaults
    /\ \E id \in DOMAIN inflight :
          LET result == MakeResult(0, now - inflight[id].startTime)
          IN  /\ inflight' = Without(inflight, id)
              /\ monitoringCache' =
                    (options.url :> PushShift(CacheGet(options.url), result))
                       @@ monitoringCache
              /\ log' = Append(log, result)
              /\ Caught("network")
    /\ UNCHANGED <<options, now, started, abortTimers, answers, err>>
    /\ UNCHANGED <<navVars, gitVars, topVars>>

\* lines 44, 52 and 87-91: the probe promise rejects (DNS failure,
\* connection refused, ping backend error).  clearTimeout on line 55 is
\* skipped, so an abort timer stays pending.
ProbeRejects(e) ==
    /\ Alive
    /\ faults < e.maxFaults
    /\ \E id \in DOMAIN inflight :
          /\ inflight' = Without(inflight, id)
          /\ Caught("network")
    /\ UNCHANGED <<options, now, started, abortTimers, monitoringCache, log, answers, err>>
    /\ UNCHANGED <<navVars, gitVars, topVars>>

\* lines 50-52 and 87-91: the abort timer of a GET still outstanding fires,
\* fetch rejects with an AbortError
AbortFires(e) ==
    /\ Alive
    /\ faults < e.maxFaults
    /\ \E id \in DOMAIN abortTimers \cap DOMAIN inflight :
          /\ now >= abortTimers[id]
          /\ abortTimers' = Without(abortTimers, id)
          /\ inflight' = Without(inflight, id)
          /\ Caught("aborted")
    /\ UNCHANGED <<options, now, started, monitoringCache, log, answers, err>>
    /\ UNCHANGED <<navVars, gitVars, topVars>>

\* line 50: the abort timer of a check that has already ended fires; abort()
\* on a finished request does nothing
StaleAbortFires ==
    /\ Alive
    /\ \E id \in DOMAIN abortTimers \ DOMAIN inflight :
          /\ now >= abortTimers[id]
          /\ abortTimers' = Without(abortTimers, id)
    /\ UNCHANGED <<options, pc, now, started, inflight, intervalId,
                   sigintHandler, monitoringCache, log, answers, faults, out, err>>
    /\ UNCHANGED <<navVars, gitVars, topVars>>

\* One second passes.  Timers that are due run first; the ping backend gives
\* up on its own after PingDeadline seconds.
Tick ==
    /\ Alive
    /\ intervalId.armed => now < intervalId.due
    /\ \A id \in DOMAIN abortTimers : now < abortTimers[id]
    /\ \A id \in DOMAIN inflight :
          inflight[id].kind = "ping" =>
             now - inflight[id].startTime < PingDeadline * MsPerSecond
    /\ now' = now + MsPerSecond
    /\ UNCHANGED <<options, pc, started, inflight, abortTimers, intervalId,
                   sigintHandler, monitoringCache, log, answers, faults, out, err>>
    /\ UNCHANGED <<navVars, gitVars, topVars>>

\* the SIGINT handler without process.exit(0)
SigintHandledNoExit ==
    /\ Alive
    /\ sigintHandler
    /\ intervalId' = [armed |-> FALSE, due |-> intervalId.due]
    /\ out' = Append(out, Line("stopped"))
    /\ UNCHANGED <<options, pc, now, started, inflight, abortTimers,
                   sigintHandler, monitoringCache, log, answers, faults, err>>
    /\ UNCHANGED <<navVars, gitVars, topVars>>

\* lines 98-102: SIGINT with the handler installed
SigintHandled ==
    /\ Alive
    /\ sigintHandler
    /\ intervalId' = [armed |-> FALSE, due |-> intervalId.due]
    /\ out' = Append(out, Line("stopped"))
    /\ pc' = "exited"
    /\ UNCHANGED <<options, now, started, inflight, abortTimers, sigintHandler,
                   monitoringCache, log, answers, faults, err>>
    /\ UNCHANGED <<navVars, gitVars, topVars>>

\* SIGINT before line 98 has run: Node's default disposition ends the
\* process, nothing is printed
SigintDefault ==
    /\ Alive
    /\ ~sigintHandler
    /\ pc' = "killed"
    /\ UNCHANGED <<options, now, started, inflight, abortTimers, intervalId,
                   sigintHandler, monitoringCache, log, answers, faults, out, err>>
    /\ UNCHANGED <<navVars, gitVars, topVars>>

Monitor(e) ==
    \/ Launch
    \/ TimerFire(e)
    \/ ProbeReturns(e)
    \/ RenderThrows(e)
    \/ ProbeRejects(e)
    \/ AbortFires(e)
    \/ StaleAbortFires
    \/ Tick
    \/ SigintHandled
    \/ SigintDefault

Next == Monitor(Env)

NextWindow == Monitor(WindowEnv)

NextLatency == Monitor(LatencyEnv)

Spec == Init /\ [][Next]_vars

SpecWindow == InitWindow /\ [][NextWindow]_vars

SpecLatency == InitLatency /\ [][NextLatency]_vars

SpecTiming == InitTiming /\ [][Next]_vars

TypeOK ==
    /\ options \in OptionSets \cup TimingOptionSets
    /\ pc \in {"init", "returned", "first", "armed", "exited", "killed", "crashed"}
    /\ started \in 0..MaxWindowChecks + 1
    /\ DOMAIN inflight \subseteq 1..started
    /\ DOMAIN abortTimers \subseteq 1..started
    /\ sigintHandler \in BOOLEAN
    /\ Len(log) <= started

\* ------------------------------------------------------------- claims
Min(a, b) == IF a < b THEN a ELSE b

Abs(a) == IF a < 0 THEN 0 - a ELSE a

\* the history retained for the monitored URL
Retained == CacheGet(options.url)

\* check() invocations that have run to their end
Completed == started - Cardinality(DOMAIN inflight)

Screen == IF out = <<>> THEN Line("blank") ELSE out[1]

\* C1: after N results have been recorded the retained history has exactly
\* min(N, 10) entries, and the cache has an entry as soon as N > 0.
C1_LengthIsMin ==
    /\ Len(Retained) = Min(Len(log), HistorySize)
    /\ (options.url \in DOMAIN monitoringCache) <=> (Len(log) > 0)

C1_Witness == Len(log) = HistorySize + 1 /\ Len(Retained) = HistorySize

\* C2: the retained history is the last min(N, 10) recorded results in the
\* order they were recorded; what is evicted is the oldest.
C2_Fifo ==
    LET n == Len(log)
        k == Min(n, HistorySize)
    IN  Retained = SubSeq(log, n - k + 1, n)

C2_Witness ==
    /\ Len(log) = HistorySize + 1
    /\ Retained = Tail(log)
    /\ log[1] # log[2]

\* C3: at most one probe is in flight at any time (ticks never overlap).
C3_NoOverlap == Cardinality(DOMAIN inflight) <= 1

ProbeErrors == {"network", "aborted"}

\* C4: a tick whose probe failed has appended a result with isUp = FALSE:
\* when the screen shows a probe error, every completed tick has its entry
\* in the recorded history and the newest recorded result is down.
C4_ProbeFailureRecorded ==
    (Screen.type = "error" /\ Screen.message \in ProbeErrors) =>
        /\ Len(log) = Completed
        /\ log # <<>>
        /\ ~Last(log).isUp

\* C5: a tick that ends in an error shows the error and leaves the loop
\* running: check() does not reject (the command neither returns through
\* its outer catch nor dies of an unhandled rejection), the interval timer
\* is armed and the SIGINT handler installed.
C5_ErrorsContained ==
    [][faults' > faults =>
          /\ out' # <<>>
          /\ out'[1].type = "error"
          /\ pc' = "armed"
          /\ intervalId'.armed
          /\ sigintHandler']_vars

\* a tick has failed and a later completion has repainted the report
C5_Witness ==
    /\ faults >= 1
    /\ pc = "armed"
    /\ intervalId.armed
    /\ Screen.type = "report"

\* C6: no probe is outstanding for longer than the configured timeout.
C6_TimeoutEnforced ==
    \A id \in DOMAIN inflight : now - inflight[id].startTime <= timeout

\* C7: a process ended by an interrupt has cancelled the interval timer and
\* printed the stop message last.
C7_InterruptStops ==
    pc \in {"exited", "killed"} =>
        /\ ~intervalId.armed
        /\ Last(out).type = "stopped"

\* C8: once the stop message is printed nothing more happens: no check
\* starts, no result is recorded, nothing is printed, and the timer is
\* cancelled.
C8_NothingAfterStop ==
    [][(out # <<>> /\ Last(out).type = "stopped") =>
          /\ ~intervalId.armed
          /\ started' = started
          /\ log' = log
          /\ monitoringCache' = monitoringCache
          /\ out' = out
          /\ err' = err]_vars

\* the signal arrived in an idle interval, after at least one recorded tick
C8_Witness ==
    /\ pc = "exited"
    /\ DOMAIN inflight = {}
    /\ Len(log) >= 1
    /\ Last(out).type = "stopped"

\* C9: with a missing or an invalid URL the command reports one error and
\* does nothing else.
C9_ConfigError ==
    (pc # "init" /\ options.url \in {NoUrl, BadUrl}) =>
        /\ pc = "returned"
        /\ Len(err) = 1
        /\ started = 0
        /\ DOMAIN inflight = {}
        /\ DOMAIN abortTimers = {}
        /\ ~intervalId.armed
        /\ ~sigintHandler
        /\ DOMAIN monitoringCache = {}
        /\ out = <<>>

C9_Witness == pc = "returned" /\ options.url = BadUrl /\ Len(err) = 1

\* C10: the availability on a report is k/n*100 to the nearest tenth, n the
\* number of retained results and k those that are up; statuses
\* [200, 503, 200] show 66.7.
C10_Availability ==
    Screen.type = "report" =>
        LET n == Len(Retained)
            k == Cardinality({i \in 1..n : Retained[i].status = StatusOK})
        IN  /\ n \in 1..HistorySize
            /\ 2 * Abs(Screen.availability * n - 1000 * k) <= n
            /\ (n = 3 /\ k = 2) => Screen.availability = 667

\* a report over a full window of down results after an up result was evicted
C10_Witness ==
    /\ Screen.type = "report"
    /\ Len(log) > HistorySize
    /\ log[1].isUp
    /\ Screen.availability = 0

\* the responseTime values of rs[1..i] added up
RECURSIVE TimeSum(_, _)
TimeSum(rs, i) == IF i = 0 THEN 0 ELSE rs[i].responseTime + TimeSum(rs, i - 1)

\* C11: the average response time on a report is the mean of responseTime
\* over the retained results, to the nearest tenth (NaN when one of them is
\* NaN).
C11_AverageIsMean ==
    Screen.type = "report" =>
        LET n == Len(Retained)
        IN  /\ n \in 1..HistorySize
            /\ IF \E i \in 1..n : Retained[i].responseTime = NaN
               THEN Screen.avgResponseTime = NaN
               ELSE 2 * Abs(Screen.avgResponseTime * n - 10 * TimeSum(Retained, n)) <= n

\* a report over a full window of instant answers after a slow one was evicted
C11_Witness ==
    /\ Screen.type = "report"
    /\ Len(log) > HistorySize
    /\ log[1].responseTime = MsPerSecond
    /\ Screen.avgResponseTime = 0

\* C12: the first probe is issued by the launch itself, with no timer armed;
\* the timer is armed by the step that completes the first tick; every later
\* check is started with the timer armed and due.
C12_FirstProbeImmediate ==
    [][/\ (pc = "init" /\ pc' = "first") =>
             /\ started' = 1
             /\ inflight'[1].startTime = now
             /\ ~intervalId'.armed
       /\ (~intervalId.armed /\ intervalId'.armed) =>
             /\ pc = "first"
             /\ started = 1
             /\ DOMAIN inflight = {1}
             /\ DOMAIN inflight' = {}
       /\ (started >= 1 /\ started' > started) =>
             /\ intervalId.armed
             /\ now >= intervalId.due]_vars

C12_Witness == pc = "armed" /\ started = 2 /\ 2 \in DOMAIN inflight

\* C13: with --interval or --timeout zero, negative or not a number no
\* probe is issued and no timer is armed.
C13_PositiveTiming ==
    (ParseInt(options.interval) <= 0 \/ ParseInt(options.timeout) <= 0) =>
        /\ started = 0
        /\ ~intervalId.armed

\* C14: every retained result has isUp = (status = 200) and is the result
\* as it was pushed.
C14_IsUpFromStatus ==
    LET n == Len(Retained)
    IN  \A i \in 1..n :
           /\ Retained[i].isUp <=> (Retained[i].status = 200)
           /\ Retained[i] = log[Len(log) - n + i]

C14_Witness ==
    /\ \E i \in 1..Len(Retained) : Retained[i].status = 204 /\ ~Retained[i].isUp
    /\ \E i \in 1..Len(Retained) : Retained[i].status = 200 /\ Retained[i].isUp

\* C15: in a ping run every recorded result is up exactly when the backend
\* said alive, with status 200 or 503 accordingly; every probe issued is a
\* ping of the URL's hostname and no GET (hence no abort timer) exists.
C15_PingMode ==
    options.ping =>
        /\ \A i \in 1..Len(log) :
              /\ answers[i].kind = "ping"
              /\ log[i].isUp <=> answers[i].alive
              /\ log[i].status = IF answers[i].alive THEN 200 ELSE 503
        /\ \A id \in DOMAIN inflight :
              /\ inflight[id].kind = "ping"
              /\ inflight[id].target = "example.com"
        /\ DOMAIN abortTimers = {}

C15_Witness ==
    /\ options.ping
    /\ \E i \in 1..Len(log) : log[i].isUp /\ answers[i].alive
    /\ \E i \in 1..Len(log) : ~log[i].isUp /\ ~answers[i].alive

\* C16: in a ping run every recorded responseTime is a number (a time that
\* does not parse is recorded as 0) and so is the average on a report.
C16_ResponseTimeIsNumber ==
    options.ping =>
        /\ \A i \in 1..Len(log) :
              /\ log[i].responseTime # NaN
              /\ answers[i].time.string = Unknown => log[i].responseTime = 0
        /\ Screen.type = "report" => Screen.avgResponseTime # NaN

C18_RecordRenderAtomic ==
    /\ Len(log) = Len(answers)
    /\ Screen.type = "report" =>
          /\ Retained # <<>>
          /\ Last(Retained) = Last(log)
          /\ Screen.isUp = Last(Retained).isUp
          /\ Screen.responseTime = Last(Retained).responseTime
          /\ Len(Screen.recent) = Len(Retained)
          /\ Screen.availability =
                ToFixed1(100 * Cardinality({i \in 1..Len(Retained) : Retained[i].isUp}),
                         Len(Retained))

\* the newest result's GET was issued before the previous result came back
C18_Witness ==
    /\ ~options.ping
    /\ Screen.type = "report"
    /\ Len(log) >= 2
    /\ Last(log).timestamp - Last(log).responseTime < log[Len(log) - 1].timestamp

\* C19: a report lists every retained result, newest first.
C19_NewestFirst ==
    Screen.type = "report" =>
        LET n == Len(Retained)
        IN  /\ n \in 1..HistorySize
            /\ Len(Screen.recent) = n
            /\ \A i \in 1..n : Screen.recent[i] = Retained[n + 1 - i]
            /\ Retained[n] = Last(log)

C19_Witness ==
    /\ Screen.type = "report"
    /\ Len(Screen.recent) = HistorySize
    /\ Screen.recent[1].timestamp > Screen.recent[HistorySize].timestamp

\* the screen shows the first report of the run: every other completed tick
\* ended in the catch block
FirstReport == Screen.type = "report" /\ faults = Completed - 1

C21_LazyHistory ==
    /\ [](answers = <<>> => monitoringCache = <<>>)
    /\ [][LET had  == options.url \in DOMAIN monitoringCache
              has  == options.url \in DOMAIN monitoringCache'
          IN  /\ (~had /\ has) => (answers = <<>> /\ Len(answers') = 1)
              /\ had => (has /\ monitoringCache'[options.url] # <<>>)]_vars

\* the entry was created by the second or third tick, after a failed one
C21_Witness ==
    /\ options.url \in DOMAIN monitoringCache
    /\ Len(log) = 1
    /\ faults >= 1
    /\ Completed >= 2
    /\ Screen.type = "report"

\* C22: a tick whose probe throws (the catch block is reached without an
\* answer from the backend) leaves the cache and the recorded results as
\* they were and prints only the error message.
C22_FailedProbeFrame ==
    [][(faults' = faults + 1 /\ answers' = answers) =>
          /\ monitoringCache' = monitoringCache
          /\ log' = log
          /\ Len(out') = 1
          /\ out'[1].type = "error"
          /\ out'[1].message \in ProbeErrors]_vars

\* a probe failed with the window full
C22_Witness ==
    /\ Screen.type = "error"
    /\ Screen.message \in ProbeErrors
    /\ Len(Retained) = HistorySize
    /\ faults = 1

\* C23: an abort timer is pending only while the GET it guards is
\* outstanding: when a tick has ended its timer has fired or been cleared.
C23_AbortTimerCleared == DOMAIN abortTimers \subseteq DOMAIN inflight

\* ================================================================= nav
MaxInvocations == 4
MaxFlags == 2

\* option values as commander hands them over: undefined, true, or a string
Str(s) == [typeof |-> "string", value |-> s]

True == [typeof |-> "boolean", value |-> ""]

\* JavaScript truthiness of an option value: the empty string is falsy
Truthy(v) == v.typeof = "boolean" \/ (v.typeof = "string" /\ v.value # "")

Names == {"", "home", "work"}

Cwd == "/home/user"

Paths == {"/srv", "/etc/hosts", "/gone"}

\* fs.stat: a directory, a file, or a rejection
Stat(path) ==
    IF path \in {Cwd, "/srv"} THEN "directory"
    ELSE IF path = "/etc/hosts" THEN "file"
    ELSE "ENOENT"

OperationFlags == {"add", "remove", "list", "clear", "go"}

\* the command lines tried: at most MaxFlags of the operation flags at once,
\* --path only together with --add (nothing else reads it)
NavOptionSets ==
    {o \in [add    : {Undefined} \cup {Str(n) : n \in Names},
            remove : {Undefined} \cup {Str(n) : n \in Names},
            list   : {Undefined, True},
            clear  : {Undefined, True},
            go     : {Undefined, True} \cup {Str(n) : n \in Names},
            path   : {Undefined} \cup {Str(q) : q \in Paths}] :
        /\ Cardinality({f \in OperationFlags : o[f] # Undefined}) <= MaxFlags
        /\ o.add = Undefined => o.path = Undefined}

\* Record<string, Bookmark> as the sequence of its values in key order
Keys(bs) == {bs[i].name : i \in DOMAIN bs}

Has(bs, name) == name \in Keys(bs)

Index(bs, name) == CHOOSE i \in DOMAIN bs : bs[i].name = name

Get(bs, name) == bs[Index(bs, name)]

\* bs[name] = b: an existing key keeps its place, a new one goes last
Set(bs, b) ==
    IF Has(bs, b.name) THEN [bs EXCEPT ![Index(bs, b.name)] = b] ELSE Append(bs, b)

\* delete bs[name]
Delete(bs, name) ==
    LET keep(b) == b.name # name IN SelectSeq(bs, keep)

\* .sort((a, b) => b.visits - a.visits): most visited first, stable
InsertByVisits(sorted, b) ==
    LET k == Cardinality({i \in DOMAIN sorted : sorted[i].visits >= b.visits})
    IN  SubSeq(sorted, 1, k) \o <<b>> \o SubSeq(sorted, k + 1, Len(sorted))

RECURSIVE SortByVisits(_)
SortByVisits(bs) ==
    IF bs = <<>> THEN <<>>
    ELSE InsertByVisits(SortByVisits(SubSeq(bs, 1, Len(bs) - 1)), bs[Len(bs)])

MostUsed == 5

Message(type, name) == [type |-> type, name |-> name, shown |-> <<>>]

Listing(type, bs) == [type |-> type, name |-> "", shown |-> bs]

\* line 30: every invocation starts by parsing the persisted item
NavStart(o) ==
    /\ navRuns < MaxInvocations
    /\ navRuns' = navRuns + 1
    /\ navOptions' = o
    /\ bookmarks' = localStorage

NavSilent == navWrites' = 0 /\ UNCHANGED localStorage

\* --add without the fs.stat check
NavAddUnchecked(o) ==
    /\ Truthy(o.add)
    /\ NavStart(o)
    /\ LET pathToAdd == IF Truthy(o.path) THEN o.path.value ELSE Cwd
       IN  /\ localStorage' =
                 Set(localStorage, [name |-> o.add.value, path |-> pathToAdd,
                                    visits |-> 0, lastVisit |-> now])
           /\ navWrites' = 1
           /\ navOut' = <<Message("added", o.add.value)>>
           /\ navErr' = <<>>
    /\ UNCHANGED <<monitorVars, gitVars, topVars>>

\* lines 32-54
NavAdd(o) ==
    /\ Truthy(o.add)
    /\ NavStart(o)
    /\ LET pathToAdd == IF Truthy(o.path) THEN o.path.value ELSE Cwd
       IN  IF Stat(pathToAdd) = "ENOENT"
           THEN /\ navErr' = <<Message("Error: Directory does not exist", "")>>
                /\ navOut' = <<>>
                /\ NavSilent
           ELSE IF Stat(pathToAdd) # "directory"
           THEN /\ navErr' = <<Message("Error: Not a directory", "")>>
                /\ navOut' = <<>>
                /\ NavSilent
           ELSE /\ localStorage' =
                      Set(localStorage, [name |-> o.add.value, path |-> pathToAdd,
                                         visits |-> 0, lastVisit |-> now])
                /\ navWrites' = 1
                /\ navOut' = <<Message("added", o.add.value)>>
                /\ navErr' = <<>>
    /\ UNCHANGED <<monitorVars, gitVars, topVars>>

\* lines 56-65
NavRemove(o) ==
    /\ ~Truthy(o.add)
    /\ Truthy(o.remove)
    /\ NavStart(o)
    /\ IF ~Has(localStorage, o.remove.value)
       THEN /\ navErr' = <<Message("not found", o.remove.value)>>
            /\ navOut' = <<>>
            /\ NavSilent
       ELSE /\ localStorage' = Delete(localStorage, o.remove.value)
            /\ navWrites' = 1
            /\ navOut' = <<Message("removed", o.remove.value)>>
            /\ navErr' = <<>>
    /\ UNCHANGED <<monitorVars, gitVars, topVars>>

\* lines 67-81
NavList(o) ==
    /\ ~Truthy(o.add)
    /\ ~Truthy(o.remove)
    /\ Truthy(o.list)
    /\ NavStart(o)
    /\ navOut' = IF localStorage = <<>>
                 THEN <<Message("No bookmarks saved", "")>>
                 ELSE <<Listing("Saved Bookmarks:", SortByVisits(localStorage))>>
    /\ navErr' = <<>>
    /\ NavSilent
    /\ UNCHANGED <<monitorVars, gitVars, topVars>>

\* --clear taking effect whatever else is given
NavClearFirst(o) ==
    /\ Truthy(o.clear)
    /\ NavStart(o)
    /\ localStorage' = <<>>
    /\ navWrites' = 1
    /\ navOut' = <<Message("All bookmarks cleared", "")>>
    /\ navErr' = <<>>
    /\ UNCHANGED <<monitorVars, gitVars, topVars>>

\* lines 83-86
NavClear(o) ==
    /\ ~Truthy(o.add)
    /\ ~Truthy(o.remove)
    /\ ~Truthy(o.list)
    /\ Truthy(o.clear)
    /\ NavStart(o)
    /\ localStorage' = <<>>
    /\ navWrites' = 1
    /\ navOut' = <<Message("All bookmarks cleared", "")>>
    /\ navErr' = <<>>
    /\ UNCHANGED <<monitorVars, gitVars, topVars>>

\* lines 96-115: the bookmark named on the command line, or the one picked
\* at the prompt
GoTargets(o) ==
    IF o.go.typeof = "string" THEN {o.go.value} ELSE Keys(localStorage)

\* lines 117-122 for the bookmark `name`, counting the visit `by` times; the
\* store is written before process.chdir, which throws when the directory
\* has gone since it was bookmarked
Visit(name, by, gone) ==
    LET target == Get(localStorage, name)
    IN  /\ localStorage' =
              Set(localStorage, [target EXCEPT !.visits = @ + by, !.lastVisit = now])
        /\ navWrites' = 1
        /\ IF gone
           THEN /\ navErr' = <<Message("Error:", target.path)>>
                /\ navOut' = <<>>
           ELSE /\ navOut' = <<Message("Changed directory to:", target.path)>>
                /\ navErr' = <<>>

GoGuard(o) ==
    /\ ~Truthy(o.add)
    /\ ~Truthy(o.remove)
    /\ ~Truthy(o.list)
    /\ ~Truthy(o.clear)
    /\ o.go # Undefined

\* --go counting every visit twice
NavGoTwice(o) ==
    /\ GoGuard(o)
    /\ NavStart(o)
    /\ IF localStorage = <<>>
       THEN /\ navOut' = <<Message("No bookmarks saved", "")>>
            /\ navErr' = <<>>
            /\ NavSilent
       ELSE IF o.go.typeof = "string" /\ ~Has(localStorage, o.go.value)
       THEN /\ navErr' = <<Message("not found", o.go.value)>>
            /\ navOut' = <<>>
            /\ NavSilent
       ELSE \E name \in GoTargets(o), gone \in BOOLEAN : Visit(name, 2, gone)
    /\ UNCHANGED <<monitorVars, gitVars, topVars>>

\* lines 88-123
NavGo(o) ==
    /\ GoGuard(o)
    /\ NavStart(o)
    /\ IF localStorage = <<>>
       THEN /\ navOut' = <<Message("No bookmarks saved", "")>>
            /\ navErr' = <<>>
            /\ NavSilent
       ELSE IF o.go.typeof = "string" /\ ~Has(localStorage, o.go.value)
       THEN /\ navErr' = <<Message("not found", o.go.value)>>
            /\ navOut' = <<>>
            /\ NavSilent
       ELSE \E name \in GoTargets(o), gone \in BOOLEAN : Visit(name, 1, gone)
    /\ UNCHANGED <<monitorVars, gitVars, topVars>>

\* lines 125-139
NavDefault(o) ==
    /\ ~Truthy(o.add)
    /\ ~Truthy(o.remove)
    /\ ~Truthy(o.list)
    /\ ~Truthy(o.clear)
    /\ o.go = Undefined
    /\ NavStart(o)
    /\ navOut' =
          <<Message("Current Directory:", Cwd)>> \o
          (IF localStorage = <<>> THEN <<>>
           ELSE <<Listing("Most Used Bookmarks:",
                          SubSeq(SortByVisits(localStorage), 1,
                                 Min(MostUsed, Len(localStorage))))>>)
    /\ navErr' = <<>>
    /\ NavSilent
    /\ UNCHANGED <<monitorVars, gitVars, topVars>>

NextNav ==
    \/ \E o \in NavOptionSets : NavAdd(o)
    \/ \E o \in NavOptionSets : NavRemove(o)
    \/ \E o \in NavOptionSets : NavList(o)
    \/ \E o \in NavOptionSets : NavClear(o)
    \/ \E o \in NavOptionSets : NavGo(o)
    \/ \E o \in NavOptionSets : NavDefault(o)

InitNav == Init /\ options = WindowOptions

SpecNav == InitNav /\ [][NextNav]_vars

\* the flag the if / else-if chain on lines 32-125 acts on
Chosen(o) ==
    IF Truthy(o.add) THEN "add"
    ELSE IF Truthy(o.remove) THEN "remove"
    ELSE IF Truthy(o.list) THEN "list"
    ELSE IF Truthy(o.clear) THEN "clear"
    ELSE IF o.go # Undefined THEN "go"
    ELSE "default"

\* name, path and visits of the bookmark `name` in `bs`
Entry(bs, name) ==
    IF Has(bs, name)
    THEN <<Get(bs, name).name, Get(bs, name).path, Get(bs, name).visits>>
    ELSE <<>>

\* every bookmark but `name` is in `after` as it was in `before`
OthersKept(before, after, name) ==
    \A n \in (Keys(before) \cup Keys(after)) \ {name} :
        Entry(after, n) = Entry(before, n)

Went(name) ==
    /\ Has(bookmarks, name)
    /\ Entry(localStorage, name) =
          <<name, Get(bookmarks, name).path, Get(bookmarks, name).visits + 1>>
    /\ OthersKept(bookmarks, localStorage, name)
    /\ Len(localStorage) = Len(bookmarks)

\* a --go that names an existing bookmark, or picks one at the prompt
GoCounts ==
    LET o == navOptions
    IN  (Chosen(o) = "go" /\ bookmarks # <<>>) =>
           IF o.go.typeof = "string"
           THEN Has(bookmarks, o.go.value) => Went(o.go.value)
           ELSE \E n \in Keys(bookmarks) : Went(n)

\* the name --go or --remove was given, when it is not bookmarked
Missing ==
    LET o == navOptions
    IN  IF Chosen(o) = "go" /\ o.go.typeof = "string" /\ ~Has(bookmarks, o.go.value)
        THEN {o.go.value}
        ELSE IF Chosen(o) = "remove" /\ ~Has(bookmarks, o.remove.value)
        THEN {o.remove.value}
        ELSE {}

\* visits go down only by re-adding the bookmark
VisitsKept ==
    \A n \in Keys(bookmarks) \cap Keys(localStorage) :
        \/ Get(localStorage, n).visits >= Get(bookmarks, n).visits
        \/ Chosen(navOptions) = "add" /\ navOptions.add.value = n

C29_AddChecksDirectory ==
    LET o          == navOptions
        pathToAdd  == IF Truthy(o.path) THEN o.path.value ELSE Cwd
    IN  Chosen(o) = "add" =>
           IF Stat(pathToAdd) = "directory"
           THEN /\ Entry(localStorage, o.add.value) = <<o.add.value, pathToAdd, 0>>
                /\ OthersKept(bookmarks, localStorage, o.add.value)
                /\ Len(localStorage) = Cardinality(Keys(bookmarks) \cup {o.add.value})
                /\ navWrites = 1
           ELSE /\ localStorage = bookmarks
                /\ navWrites = 0
                /\ navErr # <<>>

\* a visited bookmark was added again, with another bookmark present
C29_Witness ==
    /\ Chosen(navOptions) = "add"
    /\ Has(bookmarks, navOptions.add.value)
    /\ Get(bookmarks, navOptions.add.value).visits > 0
    /\ Get(localStorage, navOptions.add.value).visits = 0
    /\ Len(localStorage) = 2

\* =============================================================== cntrl
MaxStatusLines == 2

\* lines 404-460: the options of non-interactive mode in the order of
\* their `if` statements, each with the git command it runs
Operations ==
    <<[option |-> "status",   command |-> "status --porcelain"],
      [option |-> "branch",   command |-> "branch -a"],
      [option |-> "checkout", command |-> "checkout"],
      [option |-> "new",      command |-> "checkout -b"],
      [option |-> "add",      command |-> "add"],
      [option |-> "commit",   command |-> "commit"],
      [option |-> "push",     command |-> "push"],
      [option |-> "pull",     command |-> "pull"]>>

GitOptionSets ==
    SUBSET ({Operations[i].option : i \in DOMAIN Operations} \cup {"interactive"})

\* the git commands of the `if` statements whose option is truthy, in order
Requested(opts) ==
    LET wanted(op) == op.option \in opts
        ops == SelectSeq(Operations, wanted)
    IN  [i \in 1..Len(ops) |-> ops[i].command]

\* lines 127-400: the git commands behind each path through the menus
InteractivePlans ==
    {<<"status --porcelain">>,
     <<"branch -a">>,
     <<"branch -a", "checkout -b">>,
     <<"branch -a", "checkout">>,
     <<"branch -a", "branch -d">>,
     <<"branch -a", "remote -v", "branch --set-upstream-to">>,
     <<"remote -v">>,
     <<"remote add">>,
     <<"remote -v", "remote remove">>,
     <<"status --porcelain", "add">>,
     <<"commit">>,
     <<"push">>,
     <<"pull">>,
     <<"fetch --all">>,
     <<"branch -a", "merge">>,
     <<"branch -a", "rebase">>,
     <<"stash">>,
     <<"stash pop">>}

\* where the command can be run: inside a work tree, inside the .git
\* directory of a repository (or a bare repository), outside any repository
Directories == {"worktree", "gitdir", "outside"}

\* `git rev-parse --is-inside-work-tree`: prints true in a work tree, prints
\* false (and still exits with 0) inside a git directory, fails outside a
\* repository
RevParse(dir) ==
    IF dir = "worktree" THEN [ok |-> TRUE, stdout |-> "true"]
    ELSE IF dir = "gitdir" THEN [ok |-> TRUE, stdout |-> "false"]
    ELSE [ok |-> FALSE, stdout |-> ""]

\* how a git command can end: `git status` needs a work tree, everything
\* else can succeed or fail
Outcomes(dir, command) ==
    IF dir # "worktree" /\ command = "status --porcelain" THEN {FALSE} ELSE BOOLEAN

\* ---- strings as sequences of characters
Whitespace == {" ", "\n"}

RECURSIVE TrimStart(_)
TrimStart(s) ==
    IF s # <<>> /\ Head(s) \in Whitespace THEN TrimStart(Tail(s)) ELSE s

\* String.prototype.trim
Trim(s) == Reverse(TrimStart(Reverse(TrimStart(s))))

\* s.split('\n')
RECURSIVE Split(_)
Split(s) ==
    IF \A i \in DOMAIN s : s[i] # "\n" THEN <<s>>
    ELSE LET k == CHOOSE i \in DOMAIN s :
                     s[i] = "\n" /\ \A j \in 1..i - 1 : s[j] # "\n"
         IN  <<SubSeq(s, 1, k - 1)>> \o Split(SubSeq(s, k + 1, Len(s)))

\* s.slice(from)
Slice(s, from) == SubSeq(s, from + 1, Len(s))

\* s[i], zero-based; undefined past the end
CharAt(s, i) == IF i < Len(s) THEN s[i + 1] ELSE "undefined"

\* what `git status --porcelain` prints for one path: XY, a space, the path
PorcelainCodes == {<<" ", "M">>, <<"M", " ">>, <<"M", "M">>, <<"?", "?">>}

Files == {<<"f", "1">>, <<"f", "2">>}

PorcelainLine(code, file) == code \o <<" ">> \o file

\* the listings git can print: one line per path, no path twice
PorcelainListings ==
    LET all == {PorcelainLine(c, f) : c \in PorcelainCodes, f \in Files}
    IN  {ls \in UNION {[1..n -> all] : n \in 0..MaxStatusLines} :
            \A i, j \in DOMAIN ls : i # j => Slice(ls[i], 3) # Slice(ls[j], 3)}

RECURSIVE Stdout(_)
Stdout(lines) ==
    IF lines = <<>> THEN <<>> ELSE Head(lines) \o <<"\n">> \o Stdout(Tail(lines))

\* lines 40-58 on what executeGit returns (line 23: stdout.trim())
GetGitStatus(stdout) ==
    LET output         == Trim(stdout)
        nonEmpty(l)    == l # <<>>
        lines          == SelectSeq(Split(output), nonEmpty)
        staged(l)      == CharAt(l, 0)
        unstaged(l)    == CharAt(l, 1)
        isStaged(l)    == staged(l) # " " /\ staged(l) # "?"
        isUnstaged(l)  == unstaged(l) # " " /\ staged(l) # "?"
        isUntracked(l) == staged(l) = "?" /\ unstaged(l) = "?"
        files(ls)      == [i \in 1..Len(ls) |-> Slice(ls[i], 3)]
    IN  [staged    |-> files(SelectSeq(lines, isStaged)),
         unstaged  |-> files(SelectSeq(lines, isUnstaged)),
         untracked |-> files(SelectSeq(lines, isUntracked))]

\* ---- the action
Ran(command, ok, lines) == [command |-> command, ok |-> ok, lines |-> lines]

\* the message of what a failed command throws (lines 24-29, 60, 81, 100)
ErrorOf(command) ==
    IF command = "status --porcelain" THEN "Error: Failed to get git status"
    ELSE IF command = "branch -a" THEN "Error: Failed to get branches"
    ELSE IF command = "remote -v" THEN "Error: Failed to get remotes"
    ELSE "Error: stderr"

\* the action goes on to its next git command, or returns
Continue(plan) ==
    /\ gitPlan' = plan
    /\ gitPc' = IF plan = <<>> THEN "done" ELSE "run"

\* lines 462-464: the outer catch ends the invocation
Thrown(command) ==
    /\ gitErr' = Append(gitErr, ErrorOf(command))
    /\ gitPlan' = <<>>
    /\ gitPc' = "done"

\* lines 118-126 and 403: the work-tree check, then the choice of mode
GitRevParse ==
    /\ gitPc = "start"
    /\ \E opts \in GitOptionSets, dir \in Directories :
          /\ gitOptions' = opts
          /\ gitCwd' = dir
          /\ gitRan' = <<Ran("rev-parse --is-inside-work-tree", RevParse(dir).ok, <<>>)>>
          /\ IF ~RevParse(dir).ok
             THEN /\ gitErr' = <<"Error: Not a git repository">>
                  /\ gitPlan' = <<>>
                  /\ gitPc' = "done"
             ELSE IF "interactive" \in opts
             THEN /\ gitPlan' = <<>>
                  /\ gitPc' = "menu"
                  /\ UNCHANGED gitErr
             ELSE /\ Continue(Requested(opts))
                  /\ UNCHANGED gitErr
    /\ UNCHANGED <<gitStatus, gitOut>>
    /\ UNCHANGED <<monitorVars, navVars, topVars>>

\* lines 127-142 and the menus below: the prompts are answered
GitPrompt ==
    /\ gitPc = "menu"
    /\ \E plan \in InteractivePlans : Continue(plan)
    /\ UNCHANGED <<gitOptions, gitCwd, gitRan, gitStatus, gitOut, gitErr>>
    /\ UNCHANGED <<monitorVars, navVars, topVars>>

\* lines 146-160, 289-311, 405-418: getGitStatus and what follows it.  The
\* menu's Stage Changes goes on to `git add` only when there is something
\* to stage and something was selected.
GitGetStatus ==
    /\ gitPc = "run"
    /\ Head(gitPlan) = "status --porcelain"
    /\ \E ok \in Outcomes(gitCwd, Head(gitPlan)) :
          IF ~ok
          THEN /\ gitRan' = Append(gitRan, Ran(Head(gitPlan), FALSE, <<>>))
               /\ Thrown(Head(gitPlan))
               /\ UNCHANGED <<gitStatus, gitOut>>
          ELSE \E listing \in PorcelainListings :
                  LET status == GetGitStatus(Stdout(listing))
                      files  == status.unstaged \o status.untracked
                  IN  /\ gitRan' = Append(gitRan, Ran(Head(gitPlan), TRUE, listing))
                      /\ gitStatus' = status
                      /\ UNCHANGED gitErr
                      /\ IF "interactive" \notin gitOptions
                         THEN /\ gitOut' = Append(gitOut, "Git Status:")
                              /\ Continue(Tail(gitPlan))
                         ELSE IF Tail(gitPlan) = <<>>
                         THEN /\ gitOut' = Append(gitOut, "Git Status:")
                              /\ Continue(<<>>)
                         ELSE IF files = <<>>
                         THEN /\ gitOut' = Append(gitOut, "No changes to stage")
                              /\ Continue(<<>>)
                         ELSE /\ UNCHANGED gitOut
                              /\ \E selected \in BOOLEAN :
                                    Continue(IF selected THEN Tail(gitPlan) ELSE <<>>)
    /\ UNCHANGED <<gitOptions, gitCwd>>
    /\ UNCHANGED <<monitorVars, navVars, topVars>>

\* any other `await executeGit(...)` and the console.log after it, with a
\* failure that does not end the invocation
GitExecuteContinues ==
    /\ gitPc = "run"
    /\ Head(gitPlan) # "status --porcelain"
    /\ \E ok \in Outcomes(gitCwd, Head(gitPlan)) :
          /\ gitRan' = Append(gitRan, Ran(Head(gitPlan), ok, <<>>))
          /\ IF ok
             THEN /\ gitOut' = Append(gitOut, Head(gitPlan))
                  /\ Continue(Tail(gitPlan))
                  /\ UNCHANGED gitErr
             ELSE /\ gitErr' = Append(gitErr, ErrorOf(Head(gitPlan)))
                  /\ Continue(Tail(gitPlan))
                  /\ UNCHANGED gitOut
    /\ UNCHANGED <<gitOptions, gitCwd, gitStatus>>
    /\ UNCHANGED <<monitorVars, navVars, topVars>>

\* any other `await executeGit(...)` (getBranches and getRemotes included)
\* and the console.log after it
GitExecute ==
    /\ gitPc = "run"
    /\ Head(gitPlan) # "status --porcelain"
    /\ \E ok \in Outcomes(gitCwd, Head(gitPlan)) :
          /\ gitRan' = Append(gitRan, Ran(Head(gitPlan), ok, <<>>))
          /\ IF ok
             THEN /\ gitOut' = Append(gitOut, Head(gitPlan))
                  /\ Continue(Tail(gitPlan))
                  /\ UNCHANGED gitErr
             ELSE /\ Thrown(Head(gitPlan))
                  /\ UNCHANGED gitOut
    /\ UNCHANGED <<gitOptions, gitCwd, gitStatus>>
    /\ UNCHANGED <<monitorVars, navVars, topVars>>

NextGit ==
    \/ GitRevParse
    \/ GitPrompt
    \/ GitGetStatus
    \/ GitExecute

InitGit == Init /\ options = WindowOptions

SpecGit == InitGit /\ [][NextGit]_vars

\* ---- claims
\* the commands run after the work-tree check
AfterRevParse == IF gitRan = <<>> THEN <<>> ELSE Tail(gitRan)

\* the place of a command in the fixed order of non-interactive mode
Place(command) ==
    CHOOSE i \in DOMAIN Operations : Operations[i].command = command

\* C24: in non-interactive mode the commands run are requested ones, in
\* the order status, branch, checkout, new, add, commit, push, pull, none
\* skipped; only the last command run can have failed, and a failure ends
\* the invocation.
C24_OrderedUntilFailure ==
    "interactive" \notin gitOptions =>
        LET ran == AfterRevParse
        IN  /\ \A i \in DOMAIN ran :
                  /\ \E k \in DOMAIN Operations :
                        /\ Operations[k].command = ran[i].command
                        /\ Operations[k].option \in gitOptions
                  /\ i < Len(ran) => ran[i].ok
                  /\ i < Len(ran) => Place(ran[i].command) < Place(ran[i + 1].command)
                  /\ \A k \in 1..Place(ran[i].command) - 1 :
                        Operations[k].option \in gitOptions =>
                           \E j \in 1..i - 1 : ran[j].command = Operations[k].command
            /\ (ran # <<>> /\ ~Last(ran).ok) => (gitPc = "done" /\ gitPlan = <<>>)

\* a failed commit with a push requested after it
C24_Witness ==
    /\ {"commit", "push"} \subseteq gitOptions
    /\ "interactive" \notin gitOptions
    /\ gitPc = "done"
    /\ Last(gitRan).command = "commit"
    /\ ~Last(gitRan).ok
    /\ Len(gitRan) >= 3

\* C25: outside a git work tree the command prints 'Not a git repository'
\* and runs no git command but the work-tree check.
C25_NotARepository ==
    (gitRan # <<>> /\ gitCwd # "worktree") =>
        /\ Len(gitRan) = 1
        /\ gitErr = <<"Error: Not a git repository">>
        /\ gitPc = "done"

\* C26: every line XY path of the porcelain listing is classified by XY:
\* untracked iff XY = '??', staged iff X is neither ' ' nor '?', unstaged
\* iff Y is not ' ' and X is not '?'.
C26_ClassifiedByXY ==
    \A i \in DOMAIN gitRan :
        (gitRan[i].command = "status --porcelain" /\ gitRan[i].ok) =>
            \A k \in DOMAIN gitRan[i].lines :
                LET line  == gitRan[i].lines[k]
                    X     == line[1]
                    Y     == line[2]
                    file  == Slice(line, 3)
                    in(l) == \E n \in DOMAIN l : l[n] = file
                IN  /\ in(gitStatus.untracked) <=> (X = "?" /\ Y = "?")
                    /\ in(gitStatus.staged) <=> (X # " " /\ X # "?")
                    /\ in(gitStatus.unstaged) <=> (Y # " " /\ X # "?")

\* ================================================================= top
MaxIterations == 3
MaxGatherSeconds == 2

\* line 134
RefreshWait == 2000

Signals == {"SIGINT", "SIGTERM"}

TopRunning == topPc \in {"gathering", "waiting"}

\* lines 87-93: an iteration of the loop starts and awaits its three queries
StartIteration ==
    /\ topLoop' = Append(topLoop, [started |-> now, rendered |-> NaN])
    /\ topPc' = "gathering"

\* lines 68-71
Cleanup ==
    /\ cursor' = "shown"
    /\ topPc' = "exited"

\* the action with a listener for SIGINT only
TopLaunchSigintOnly ==
    /\ topPc = "start"
    /\ cursor' = "hidden"
    /\ topHandlers' = {"SIGINT"}
    /\ StartIteration
    /\ UNCHANGED <<topTimer, topErr>>
    /\ UNCHANGED <<monitorVars, navVars, gitVars>>

\* lines 64-93: the action up to the first await
TopLaunch ==
    /\ topPc = "start"
    /\ cursor' = "hidden"
    /\ topHandlers' = {"SIGINT", "SIGTERM"}
    /\ StartIteration
    /\ UNCHANGED <<topTimer, topErr>>
    /\ UNCHANGED <<monitorVars, navVars, gitVars>>

\* lines 89-134: the queries have answered, the table is printed and the
\* 2-second wait begins.  getProcessList reports its own failure and
\* answers with an empty list (lines 48-51).
TopGathered ==
    /\ topPc = "gathering"
    /\ \E listed \in BOOLEAN :
          topErr' = IF listed THEN topErr
                    ELSE Append(topErr, "Error getting process list:")
    /\ topLoop' = [topLoop EXCEPT ![Len(topLoop)].rendered = now]
    /\ topTimer' = now + RefreshWait
    /\ topPc' = "waiting"
    /\ UNCHANGED <<cursor, topHandlers>>
    /\ UNCHANGED <<monitorVars, navVars, gitVars>>

\* lines 135-138: a query rejects or the rendering throws
TopThrows ==
    /\ topPc = "gathering"
    /\ topErr' = Append(topErr, "Error:")
    /\ Cleanup
    /\ UNCHANGED <<topHandlers, topLoop, topTimer>>
    /\ UNCHANGED <<monitorVars, navVars, gitVars>>

\* line 134 and back to line 87: the wait is over, the next iteration starts
TopWake ==
    /\ topPc = "waiting"
    /\ now >= topTimer
    /\ Len(topLoop) < MaxIterations
    /\ StartIteration
    /\ UNCHANGED <<cursor, topHandlers, topTimer, topErr>>
    /\ UNCHANGED <<monitorVars, navVars, gitVars>>

\* lines 73-74: a signal with a listener runs cleanup; without one Node's
\* default disposition ends the process
TopSignal ==
    /\ topPc \in {"start", "gathering", "waiting"}
    /\ \E signal \in Signals :
          IF signal \in topHandlers
          THEN Cleanup
          ELSE topPc' = "killed" /\ UNCHANGED cursor
    /\ UNCHANGED <<topHandlers, topLoop, topTimer, topErr>>
    /\ UNCHANGED <<monitorVars, navVars, gitVars>>

\* One second passes while the command runs; the wait that is due ends
\* first, and the queries answer within MaxGatherSeconds.
TopTick ==
    /\ TopRunning
    /\ topPc = "waiting" => now < topTimer
    /\ topPc = "gathering" =>
          now - Last(topLoop).started < MaxGatherSeconds * MsPerSecond
    /\ now' = now + MsPerSecond
    /\ UNCHANGED <<options, pc, started, inflight, abortTimers, intervalId,
                   sigintHandler, monitoringCache, log, answers, faults, out, err>>
    /\ UNCHANGED <<navVars, gitVars, topVars>>

NextTop ==
    \/ TopLaunch
    \/ TopGathered
    \/ TopThrows
    \/ TopWake
    \/ TopSignal
    \/ TopTick

InitTop == Init /\ options = WindowOptions

SpecTop == InitTop /\ [][NextTop]_vars

\* C30: the cursor is hidden exactly while the command runs and is shown
\* again whenever the process has ended (signal or failed iteration); an
\* iteration starts only when the one before has rendered and its wait of
\* two seconds is over.
C30_CursorRestored ==
    /\ TopRunning => (cursor = "hidden" /\ topHandlers = Signals)
    /\ topPc \in {"exited", "killed"} => cursor = "shown"
    /\ topPc = "killed" => topLoop = <<>>
    /\ \A k \in DOMAIN topLoop :
          k < Len(topLoop) =>
             /\ topLoop[k].rendered # NaN
             /\ topLoop[k + 1].started >= topLoop[k].rendered + RefreshWait
    /\ (topLoop # <<>> /\ Last(topLoop).rendered = NaN) =>
          topPc \in {"gathering", "exited"}

\* the third iteration threw
C30_Witness ==
    /\ topPc = "exited"
    /\ cursor = "shown"
    /\ Len(topLoop) = 3
    /\ Last(topLoop).rendered = NaN
    /\ topErr # <<>>
    /\ Last(topErr) = "Error:"

====
